---- MODULE Spec2Model ----
(***************************************************************************)
(* Model of gather_data.py: ImageProcessor (the ingestion controller, the *)
(* tag extractor's retry loop, the two duplicate tests, the store insert) *)
(* and main().  One action per branch of the code; pc is the position of  *)
(* the single thread of control.                                          *)
(***************************************************************************)
EXTENDS Integers, Sequences, FiniteSets, Bags, TLC

\* ------------------------------------------------------------------ bounds
\* Longest page the listing API returns in this model (FETCH_BUFFER is 100).
MaxItems == 2
\* Highest page number explored.
MaxPage == 2
\* Cap of the unbounded skipped_count counter.
MaxSkipped == 2
\* CONFIG['PROCESS_THRESHOLD'] (100 in the source), scaled down.
PROCESS_THRESHOLD == 2
\* CONFIG['IMAGES_TO_PROCESS'] (50 in the source), scaled down.
IMAGES_TO_PROCESS == 1
\* Length of the comment prefix the duplicate query compares (100 in the
\* source), scaled down to the length of the model's comments.
SUBSTR_LEN == 2
\* The duplicate streak that ends the run (10 in the source), scaled down.
DUPLICATE_LIMIT == 2

\* ------------------------------------------------------- program constants
MAX_RETRIES == 3
MAX_DRIVER_RETRIES == 3
RETRY_DELAY == 5
TIME_THRESHOLD == 1
REFRESH_INTERVAL == 1
PAUSE_DURATION == 120

\* ------------------------------------------------------------------ values
\* A Python value that is None, a str or an int.  s is the text of a str and
\* the decimal digits of an int.
PyNone == [kind |-> "none", s |-> <<>>]
PyStr(t) == [kind |-> "str", s |-> t]
PyInt(t) == [kind |-> "int", s |-> t]

Digits == {"0", "7"}

Min(a, b) == IF a < b THEN a ELSE b

\* str.isdigit(): non-empty and every character a digit.
IsDigit(t) == Len(t) > 0 /\ \A i \in 1..Len(t) : t[i] \in Digits

\* The decimal digits of int(t): leading zeros are dropped.
RECURSIVE Canon(_)
Canon(t) == IF Len(t) > 1 /\ t[1] = "0" THEN Canon(Tail(t)) ELSE t

\* convert_numeric_fields on one field: a str of digits becomes an int.  The
\* float() branch accepts no string over the model's alphabet that isdigit()
\* rejects, so other strings are left as they are.
ConvertNumeric(v) ==
    IF v.kind = "str" /\ IsDigit(v.s) THEN PyInt(Canon(v.s)) ELSE v

\* The value a TEXT column holds for a bound parameter: an int is cast to
\* its decimal text.
AsText(v) == IF v.kind = "int" THEN PyStr(v.s) ELSE v

\* SQL substr(x, 1, n).
Substr(t, n) == SubSeq(t, 1, Min(n, Len(t)))

\* Python truthiness of a comment: None and "" are false.
Truthy_NotNone(v) == v.kind # "none"
Truthy(v) == v.kind # "none" /\ ~(v.kind = "str" /\ v.s = <<>>)

\* ------------------------------------------------------------ environment
VARIABLE listing        \* the items of the site the run reads (never changes)

\* The usernames of the listing, as the JSON strings the API returns: one of
\* letters and one of digits only.
Usernames == { PyStr(<<"a">>), PyStr(<<"7">>) }

\* The items a site shows (id is unique per site; an id always has one
\* username): two images of one user.  Another user's row can be in the
\* table from an earlier run (InitStores).
ItemsOf(u) == { [id |-> 1, username |-> u], [id |-> 2, username |-> u] }
Items == UNION { ItemsOf(u) : u \in Usernames }
Listings == { ItemsOf(u) : u \in Usernames }

\* What extract_exif_user_comment can return for a downloaded image.
Comments == { PyNone, PyStr(<<>>), PyStr(<<"a", "b", "c">>), PyStr(<<"a", "b", "d">>),
              PyStr(<<"0", "7">>) }

\* The tag lists a rendered page can show (non-empty ones).
TagLists == { <<"t1">>, <<"t2">> }

\* Pages the listing API can return: every sequence of at most MaxItems items.
RECURSIVE SeqsUpTo(_, _)
SeqsUpTo(S, n) ==
    IF n = 0 THEN { <<>> }
    ELSE LET shorter == SeqsUpTo(S, n - 1)
         IN  shorter \cup { Append(q, x) : q \in { r \in shorter : Len(r) = n - 1 }, x \in S }

Pages == SeqsUpTo(listing, MaxItems)

NoImage == [id |-> 0, username |-> PyStr(<<>>), tags |-> <<>>, user_comment |-> PyNone]

VARIABLES
    pc,                 \* position of the thread of control
    driver,             \* self.driver: "none", "live" or "quit"
    driver_retries,     \* initialize_driver's local retries
    store,              \* rows of the images table (a bag)
    existing_entries_set,
    processed_ids,
    recent_users,       \* key of line 307 -> seconds since the recorded timestamp
    previous_images,
    processed_count,
    skipped_count,
    consecutive_duplicate_count,
    page,
    images,             \* the page being iterated
    idx,                \* position of the for loop in images
    user_comment,       \* process_image's local
    retries,            \* extract_image_details' local
    processed_image,    \* the candidate record, NoImage for None
    duplicate,          \* the value is_duplicate returned
    bound,              \* whether main's name `processor` is bound
    logged              \* what the iteration of the current item last logged
                        \* ("none" between items; line 315 is left out)

vars == << pc, driver, driver_retries, store, existing_entries_set, processed_ids,
           recent_users, previous_images, processed_count, skipped_count,
           consecutive_duplicate_count, page, images, idx, user_comment, retries,
           processed_image, duplicate, bound, logged, listing >>

\* ----------------------------------------------------------------- helpers
\* time.sleep(d), and time passing: every recorded timestamp is d seconds
\* older.  Ages are kept up to TIME_THRESHOLD, the only value line 283
\* compares them with.
Elapse(ru, d) == [u \in DOMAIN ru |-> Min(ru[u] + d, TIME_THRESHOLD)]

\* Line 283: the username has a timestamp younger than TIME_THRESHOLD.
IsRecent(ru, username) == username \in DOMAIN ru /\ ru[username] < TIME_THRESHOLD

\* format_image_data: the fields the controller reads (url, hash, createdAt,
\* postId and web_url are carried along and never read).  Line 196 converts
\* every str field, the username included; id is an int already.
format_image_data(image, tags, comment) ==
    [id |-> image.id, username |-> ConvertNumeric(image.username), tags |-> tags,
     user_comment |-> ConvertNumeric(comment)]

\* The row the INSERT writes: username and user_comment are TEXT columns.
Row(data) ==
    [id |-> data.id, username |-> AsText(data.username), tags |-> data.tags,
     user_comment |-> AsText(data.user_comment)]

\* is_duplicate's query, when it does not raise.
is_duplicate_FullComment(rows, username, comment) ==
    \E r \in BagToSet(rows) :
        r.username = AsText(username) /\ r.user_comment.s = AsText(comment).s
is_duplicate(rows, username, comment) ==
    \E r \in BagToSet(rows) :
        /\ r.username = AsText(username)
        /\ Substr(r.user_comment.s, SUBSTR_LEN) = Substr(AsText(comment).s, SUBSTR_LEN)

is_similar_entry_Unhashable(entries, new_data) == FALSE
is_similar_entry(entries, new_data) ==
    << new_data.tags, new_data.user_comment >> \in entries

\* Line 72: the set __enter__ builds from SELECT tags, user_comment.
LoadEntries(rows) == { << r.tags, r.user_comment >> : r \in BagToSet(rows) }

\* Lines 312-313.
Trim_DropNewest(q) ==
    IF Len(q) > IMAGES_TO_PROCESS THEN SubSeq(q, 1, Len(q) - 1) ELSE q
Trim(q) == IF Len(q) > IMAGES_TO_PROCESS THEN Tail(q) ELSE q

\* Line 177: TimeoutException is a subclass of WebDriverException.
Faults == { "TimeoutException", "WebDriverException" }
IsWebDriverException(e) == e \in { "TimeoutException", "WebDriverException" }

\* Line 317 and line 325.
QuotaReached_Late(n) == n > PROCESS_THRESHOLD
QuotaReached(n) == n >= PROCESS_THRESHOLD
StreakReached_Late(n) == n > DUPLICATE_LIMIT
StreakReached(n) == n >= DUPLICATE_LIMIT

\* The page CycleSleep goes on with (lines 329-332 leave page alone).
PageAfterCycle_Advance(p) == p + 1
PageAfterCycle(p) == p

\* Line 322.
PageAfterPause_Keep(p) == p
PageAfterPause(p) == 1

\* Line 321.
SkippedAfterPause_Kept(n) == n
SkippedAfterPause(n) == 0

\* Line 309.
IdsAfterAccept_Only(ids, id) == { id }
IdsAfterAccept(ids, id) == ids \cup { id }

\* Line 165: the loop of extract_image_details makes another attempt.
AttemptsLeft_OneMore(n) == n <= MAX_RETRIES
AttemptsLeft(n) == n < MAX_RETRIES

\* Line 287.
AlreadyProcessed_Never(ids, id) == FALSE
AlreadyProcessed(ids, id) == id \in ids

Running == { "enter", "connect", "fetch", "item", "download", "extract", "reinit",
             "dedup", "classify", "accept", "check", "pause", "cycle_end", "returned" }

image == images[idx]

\* The stores a run can start on: an empty table, or one row of an earlier run.
InitStores == { EmptyBag,
                SetToBag({ [id |-> 3, username |-> PyStr(<<"b">>), tags |-> <<"t1">>,
                            user_comment |-> PyStr(<<"a", "b", "c">>)] }) }

Init ==
    /\ listing \in Listings
    /\ pc = "enter"
    /\ driver = "none"
    /\ driver_retries = 0
    /\ store \in InitStores
    /\ existing_entries_set = {}
    /\ processed_ids = {}
    /\ recent_users = [u \in {} |-> 0]
    /\ previous_images = << >>
    /\ processed_count = 0
    /\ skipped_count = 0
    /\ consecutive_duplicate_count = 0
    /\ page = 1
    /\ images = << >>
    /\ idx = 0
    /\ user_comment = PyNone
    /\ retries = 0
    /\ processed_image = NoImage
    /\ duplicate = FALSE
    /\ bound = FALSE
    /\ logged = "none"

session == << store, existing_entries_set, processed_ids, previous_images >>
counters == << processed_count, skipped_count, consecutive_duplicate_count >>
loop == << page, images, idx >>
locals == << user_comment, retries, processed_image, duplicate >>

\* ----------------------------------------------------- initialize_driver
\* Line 85 succeeds.  In __enter__ the driver is stored and the database is
\* opened next; in extract_image_details line 180 sleeps and the loop goes on.
InitDriverOk ==
    /\ pc \in { "enter", "reinit" }
    /\ driver_retries < MAX_DRIVER_RETRIES
    /\ driver' = "live"
    /\ driver_retries' = 0
    /\ IF pc = "enter"
       THEN pc' = "connect" /\ UNCHANGED recent_users
       ELSE pc' = "extract" /\ recent_users' = Elapse(recent_users, RETRY_DELAY)
    /\ UNCHANGED << session, counters, loop, locals, bound, logged >>
    /\ UNCHANGED listing

\* Lines 86-89: the attempt fails, is counted and logged, and the loop sleeps.
InitDriverFail ==
    /\ pc \in { "enter", "reinit" }
    /\ driver_retries < MAX_DRIVER_RETRIES
    /\ driver_retries' = driver_retries + 1
    /\ logged' = "init_driver_failed"
    /\ recent_users' = Elapse(recent_users, RETRY_DELAY)
    /\ UNCHANGED << pc, driver, session, counters, loop, locals, bound >>
    /\ UNCHANGED listing

\* Line 90: the attempts are used up and WebDriverException is raised.  From
\* __enter__ it reaches main's `except Exception` (line 350); from
\* extract_image_details (line 179, inside the except clause) it reaches
\* process_image's `except Exception` (line 131), which returns None.
InitDriverRaise ==
    /\ pc \in { "enter", "reinit" }
    /\ driver_retries = MAX_DRIVER_RETRIES
    /\ driver_retries' = 0
    /\ IF pc = "enter"
       THEN /\ pc' = "error"
            /\ logged' = "unexpected_error"
       ELSE /\ pc' = "check"
            /\ logged' = "item_error_init_driver"
    /\ user_comment' = PyNone
    /\ retries' = 0
    /\ UNCHANGED << driver, session, recent_users, counters, loop, processed_image,
                    duplicate, bound >>
    /\ UNCHANGED listing

\* ------------------------------------------------------------- __enter__
\* Lines 57-73: the table is read into existing_entries_set and `processor`
\* is bound.
Enter ==
    /\ pc = "connect"
    /\ existing_entries_set' = LoadEntries(store)
    /\ bound' = TRUE
    /\ pc' = "fetch"
    /\ logged' = "none"
    /\ UNCHANGED << driver, driver_retries, store, processed_ids, previous_images,
                    recent_users, counters, loop, locals >>
    /\ UNCHANGED listing

\* Lines 57-71 raise (the database cannot be opened or read): line 350.
EnterFail ==
    /\ pc = "connect"
    /\ pc' = "error"
    /\ logged' = "unexpected_error"
    /\ UNCHANGED << driver, driver_retries, session, recent_users, counters, loop,
                    locals, bound >>
    /\ UNCHANGED listing

\* ---------------------------------------------------------- process_images
\* The for statement takes the next item, or the loop is over (line 329).
ClearLocals ==
    /\ user_comment' = PyNone
    /\ retries' = 0
    /\ processed_image' = NoImage
    /\ duplicate' = FALSE
    /\ logged' = "none"

ForNext ==
    /\ idx' = idx + 1
    /\ pc' = IF idx < Len(images) THEN "item" ELSE "cycle_end"
    /\ ClearLocals

\* Lines 273-280.  fetch_images returns the page, or [] when the request
\* fails; an empty page moves on to the next page after a sleep.
FetchImages ==
    /\ pc = "fetch"
    /\ \E imgs \in Pages :
         IF imgs = << >>
         THEN /\ page < MaxPage
              /\ page' = page + 1
              /\ images' = imgs
              /\ idx' = 0
              /\ recent_users' = Elapse(recent_users, REFRESH_INTERVAL)
              /\ pc' = "fetch"
         ELSE /\ images' = imgs
              /\ idx' = 1
              /\ pc' = "item"
              /\ UNCHANGED << page, recent_users >>
    /\ UNCHANGED << driver, driver_retries, session, counters, locals, bound, logged >>
    /\ UNCHANGED listing

\* Lines 283-286.
SkipRecent ==
    /\ pc = "item"
    /\ IsRecent(recent_users, image.username)
    /\ skipped_count < MaxSkipped
    /\ skipped_count' = skipped_count + 1
    /\ ForNext
    /\ UNCHANGED << driver, driver_retries, session, recent_users, processed_count,
                    consecutive_duplicate_count, page, images, bound >>
    /\ UNCHANGED listing

\* Lines 287-290.
SkipProcessed ==
    /\ pc = "item"
    /\ ~IsRecent(recent_users, image.username)
    /\ AlreadyProcessed(processed_ids, image.id)
    /\ skipped_count < MaxSkipped
    /\ skipped_count' = skipped_count + 1
    /\ ForNext
    /\ UNCHANGED << driver, driver_retries, session, recent_users, processed_count,
                    consecutive_duplicate_count, page, images, bound >>
    /\ UNCHANGED listing

\* Line 292: the item passes both pre-filters and process_image is called.
StartProcess ==
    /\ pc = "item"
    /\ ~IsRecent(recent_users, image.username)
    /\ ~AlreadyProcessed(processed_ids, image.id)
    /\ pc' = "download"
    /\ UNCHANGED << driver, driver_retries, session, recent_users, counters, loop,
                    locals, bound, logged >>
    /\ UNCHANGED listing

\* ----------------------------------------------------------- process_image
\* Lines 113-116 raise (the download fails): line 131 returns None.
DownloadFail ==
    /\ pc = "download"
    /\ logged' = "item_error_download"
    /\ pc' = "check"
    /\ UNCHANGED << driver, driver_retries, session, recent_users, counters, loop,
                    locals, bound >>
    /\ UNCHANGED listing

\* Lines 118-123: the comment is read; without one the item is given up.
Download ==
    /\ pc = "download"
    /\ \E c \in Comments :
         IF Truthy(c)
         THEN /\ user_comment' = c
              /\ retries' = 0
              /\ pc' = "extract"
              /\ UNCHANGED logged
         ELSE /\ logged' = "skip_no_comment"
              /\ pc' = "check"
              /\ UNCHANGED << user_comment, retries >>
    /\ UNCHANGED << driver, driver_retries, session, recent_users, counters, loop,
                    processed_image, duplicate, bound >>
    /\ UNCHANGED listing

\* --------------------------------------------------- extract_image_details
\* Lines 167-171 and 128-129: the page shows tags; the candidate is formatted.
ExtractTags ==
    /\ pc = "extract"
    /\ AttemptsLeft(retries)
    /\ driver = "live"
    /\ \E tags \in TagLists :
         processed_image' = format_image_data(image, tags, user_comment)
    /\ user_comment' = PyNone
    /\ retries' = 0
    /\ pc' = "dedup"
    /\ UNCHANGED << driver, driver_retries, session, recent_users, counters, loop,
                    duplicate, bound, logged >>
    /\ UNCHANGED listing

\* Lines 172-173: the page shows no tag and ValueError is raised.  Line 174
\* does not catch it; process_image's line 131 does, and returns None.
ExtractNoTags ==
    /\ pc = "extract"
    /\ AttemptsLeft(retries)
    /\ driver = "live"
    /\ logged' = "item_error_no_tags_on_page"
    /\ user_comment' = PyNone
    /\ retries' = 0
    /\ pc' = "check"
    /\ UNCHANGED << driver, driver_retries, session, recent_users, counters, loop,
                    processed_image, duplicate, bound >>
    /\ UNCHANGED listing

\* Lines 174-180: a timeout or a session fault is counted and logged; when
\* line 177 holds the session is quit and initialize_driver is entered,
\* otherwise line 180 sleeps and the loop goes on.  A session that was quit
\* cannot time out.
ExtractFault ==
    /\ pc = "extract"
    /\ AttemptsLeft(retries)
    /\ \E e \in Faults :
         /\ driver = "quit" => e = "WebDriverException"
         /\ logged' = IF e = "TimeoutException" THEN "retry_timeout" ELSE "retry_session_fault"
         /\ IF IsWebDriverException(e)
            THEN /\ driver' = "quit"
                 /\ driver_retries' = 0
                 /\ pc' = "reinit"
                 /\ UNCHANGED recent_users
            ELSE /\ recent_users' = Elapse(recent_users, RETRY_DELAY)
                 /\ UNCHANGED << driver, driver_retries, pc >>
    /\ retries' = retries + 1
    /\ UNCHANGED << session, counters, loop, user_comment, processed_image,
                    duplicate, bound >>
    /\ UNCHANGED listing

\* Line 167 on a session that was quit and not replaced raises an error that
\* is no WebDriverException (the connection is refused): line 131 returns None.
ExtractDeadSession ==
    /\ pc = "extract"
    /\ AttemptsLeft(retries)
    /\ driver = "quit"
    /\ logged' = "item_error_dead_session"
    /\ user_comment' = PyNone
    /\ retries' = 0
    /\ pc' = "check"
    /\ UNCHANGED << driver, driver_retries, session, recent_users, counters, loop,
                    processed_image, duplicate, bound >>
    /\ UNCHANGED listing

\* Lines 181-182 and 124-126: the attempts are used up, the tags are empty.
ExtractExhausted ==
    /\ pc = "extract"
    /\ ~AttemptsLeft(retries)
    /\ logged' = "skip_no_tags"
    /\ user_comment' = PyNone
    /\ retries' = 0
    /\ pc' = "check"
    /\ UNCHANGED << driver, driver_retries, session, recent_users, counters, loop,
                    processed_image, duplicate, bound >>
    /\ UNCHANGED listing

\* ------------------------------------------------- lines 294-315, the dedup
\* Line 297, is_duplicate answers from the table.
IsDuplicate ==
    /\ pc = "dedup"
    /\ duplicate' = is_duplicate(store, processed_image.username,
                                 processed_image.user_comment)
    /\ pc' = "classify"
    /\ UNCHANGED << driver, driver_retries, session, recent_users, counters, loop,
                    user_comment, retries, processed_image, bound, logged >>
    /\ UNCHANGED listing

\* Line 297, the query raises: lines 242-244 log it and answer False.
IsDuplicateError ==
    /\ pc = "dedup"
    /\ duplicate' = FALSE
    /\ logged' = "duplicate_query_error"
    /\ pc' = "classify"
    /\ UNCHANGED << driver, driver_retries, session, recent_users, counters, loop,
                    user_comment, retries, processed_image, bound >>
    /\ UNCHANGED listing

\* Lines 297-300 and 312-315.
SkipDuplicate ==
    /\ pc = "classify"
    /\ duplicate
    /\ skipped_count < MaxSkipped
    /\ skipped_count' = skipped_count + 1
    /\ consecutive_duplicate_count' = consecutive_duplicate_count + 1
    /\ previous_images' = Trim(previous_images)
    /\ logged' = "skip_duplicate"
    /\ pc' = "check"
    /\ UNCHANGED << driver, driver_retries, store, existing_entries_set, processed_ids,
                    recent_users, processed_count, loop, locals, bound >>
    /\ UNCHANGED listing

\* Lines 301-304 and 312-315.
SkipSimilar ==
    /\ pc = "classify"
    /\ ~duplicate
    /\ is_similar_entry(existing_entries_set, processed_image)
    /\ skipped_count < MaxSkipped
    /\ skipped_count' = skipped_count + 1
    /\ consecutive_duplicate_count' = consecutive_duplicate_count + 1
    /\ previous_images' = Trim(previous_images)
    /\ logged' = "skip_similar"
    /\ pc' = "check"
    /\ UNCHANGED << driver, driver_retries, store, existing_entries_set, processed_ids,
                    recent_users, processed_count, loop, locals, bound >>
    /\ UNCHANGED listing

\* Line 306, insert_into_db writes the row, commits and adds the pair to
\* existing_entries_set (lines 248-265).
InsertOk ==
    /\ pc = "classify"
    /\ ~duplicate
    /\ ~is_similar_entry(existing_entries_set, processed_image)
    /\ store' = store (+) SetToBag({ Row(processed_image) })
    /\ existing_entries_set' = existing_entries_set \cup
                                 { << processed_image.tags, processed_image.user_comment >> }
    /\ logged' = "inserted"
    /\ pc' = "accept"
    /\ UNCHANGED << driver, driver_retries, processed_ids, previous_images, recent_users,
                    counters, loop, locals, bound >>
    /\ UNCHANGED listing

\* Line 306, the INSERT or the commit raises: lines 266-267 log it and
\* insert_into_db returns as if nothing had happened.
InsertFail ==
    /\ pc = "classify"
    /\ ~duplicate
    /\ ~is_similar_entry(existing_entries_set, processed_image)
    /\ logged' = "insert_error"
    /\ pc' = "accept"
    /\ UNCHANGED << driver, driver_retries, session, recent_users, counters, loop,
                    locals, bound >>
    /\ UNCHANGED listing

\* The value line 311 leaves in consecutive_duplicate_count.
StreakAfterInsert_Kept(n) == n
StreakAfterInsert(n) == 0

\* Lines 307-313, which follow insert_into_db whatever it did.
Accept ==
    /\ pc = "accept"
    /\ recent_users' = [u \in DOMAIN recent_users \cup { processed_image.username } |->
                          IF u = processed_image.username THEN 0 ELSE recent_users[u]]
    /\ previous_images' = Trim(Append(previous_images, processed_image))
    /\ processed_ids' = IdsAfterAccept(processed_ids, processed_image.id)
    /\ processed_count' = processed_count + 1
    /\ consecutive_duplicate_count' = StreakAfterInsert(consecutive_duplicate_count)
    /\ pc' = "check"
    /\ UNCHANGED << driver, driver_retries, store, existing_entries_set, skipped_count,
                    loop, locals, bound, logged >>
    /\ UNCHANGED listing

\* ------------------------------------------------------------ lines 317-327
\* Lines 317-319: the quota is reached and the cool-down sleep starts.
QuotaPause ==
    /\ pc = "check"
    /\ QuotaReached(processed_count)
    /\ logged' = "threshold_reached"
    /\ pc' = "pause"
    /\ UNCHANGED << driver, driver_retries, session, recent_users, counters, loop,
                    locals, bound >>
    /\ UNCHANGED listing

\* Lines 319-323: the sleep ends, the counters and the page are reset and the
\* for loop is left.
PauseOver ==
    /\ pc = "pause"
    /\ recent_users' = Elapse(recent_users, PAUSE_DURATION)
    /\ processed_count' = 0
    /\ skipped_count' = SkippedAfterPause(skipped_count)
    /\ page' = PageAfterPause(page)
    /\ pc' = "cycle_end"
    /\ UNCHANGED << driver, driver_retries, session, consecutive_duplicate_count,
                    images, idx, locals, bound, logged >>
    /\ UNCHANGED listing

\* Lines 325-327: the only return of process_images.
Terminate ==
    /\ pc = "check"
    /\ ~QuotaReached(processed_count)
    /\ StreakReached(consecutive_duplicate_count)
    /\ logged' = "terminating"
    /\ pc' = "returned"
    /\ UNCHANGED << driver, driver_retries, session, recent_users, counters, loop,
                    locals, bound >>
    /\ UNCHANGED listing

\* Neither check holds: the for loop goes on.
NextItem ==
    /\ pc = "check"
    /\ ~QuotaReached(processed_count)
    /\ ~StreakReached(consecutive_duplicate_count)
    /\ ForNext
    /\ UNCHANGED << driver, driver_retries, session, recent_users, counters, page,
                    images, bound >>
    /\ UNCHANGED listing

\* Lines 329-332, then line 272: the rest of the refresh interval is slept
\* and the while loop fetches again.
CycleSleep ==
    /\ pc = "cycle_end"
    /\ \E d \in 0..REFRESH_INTERVAL : recent_users' = Elapse(recent_users, d)
    /\ page' = PageAfterCycle(page)
    /\ pc' = "fetch"
    /\ ClearLocals
    /\ UNCHANGED << driver, driver_retries, session, counters, images, idx, bound >>
    /\ UNCHANGED listing

\* -------------------------------------------------------------------- main
\* Time passes while the thread works (a download, a page load).
Tick ==
    /\ pc \in Running
    /\ \E u \in DOMAIN recent_users : recent_users[u] < TIME_THRESHOLD
    /\ recent_users' = Elapse(recent_users, 1)
    /\ UNCHANGED << pc, driver, driver_retries, session, counters, loop, locals,
                    bound, logged >>
    /\ UNCHANGED listing

\* The frames of process_images and of what it called are left: their locals
\* are gone.
Unwind ==
    /\ page' = 1
    /\ images' = << >>
    /\ idx' = 0
    /\ driver_retries' = 0
    /\ ClearLocals

\* Ctrl+C: KeyboardInterrupt unwinds to line 348 (through __exit__ when the
\* with block was entered).  Line 349 reads `processor`, which is unbound
\* until __enter__ has returned: the handler then raises NameError itself.
Interrupt ==
    /\ pc \in Running
    /\ IF bound
       THEN /\ pc' = "stopped"
            /\ driver' = "quit"
       ELSE /\ pc' = "crashed"
            /\ UNCHANGED driver
    /\ Unwind
    /\ UNCHANGED << session, recent_users, counters, bound >>
    /\ UNCHANGED listing

\* Lines 346-347 and 75-79: process_images returned, the with block is left.
Exit ==
    /\ pc = "returned"
    /\ driver' = "quit"
    /\ pc' = "done"
    /\ Unwind
    /\ UNCHANGED << session, recent_users, counters, bound >>
    /\ UNCHANGED listing

Next ==
    \/ InitDriverOk \/ InitDriverFail \/ InitDriverRaise
    \/ Enter \/ EnterFail
    \/ FetchImages
    \/ SkipRecent \/ SkipProcessed \/ StartProcess
    \/ DownloadFail \/ Download
    \/ ExtractTags \/ ExtractNoTags \/ ExtractFault \/ ExtractDeadSession
    \/ ExtractExhausted
    \/ IsDuplicate \/ IsDuplicateError
    \/ SkipDuplicate \/ SkipSimilar \/ InsertOk \/ InsertFail \/ Accept
    \/ QuotaPause \/ PauseOver \/ Terminate \/ NextItem
    \/ CycleSleep
    \/ Tick \/ Interrupt \/ Exit

Spec == Init /\ [][Next]_vars

\* ================================================================== claims
\* A step of the controller other than time passing and Ctrl+C.
Moves == pc' # pc /\ pc' \notin { "stopped", "crashed" }

candidate_pair == << processed_image.tags, processed_image.user_comment >>

\* The table holds a row of the candidate's username whose comment starts
\* with the same SUBSTR_LEN characters as the candidate's.
StoreMatch ==
    \E r \in BagToSet(store) :
        /\ r.username = AsText(processed_image.username)
        /\ SubSeq(r.user_comment.s, 1, Min(SUBSTR_LEN, Len(r.user_comment.s)))
             = SubSeq(processed_image.user_comment.s, 1,
                      Min(SUBSTR_LEN, Len(processed_image.user_comment.s)))

C2_QuotaCycle ==
    [][ /\ (pc = "check" /\ processed_count >= PROCESS_THRESHOLD /\ Moves) =>
             pc' = "pause"
        /\ (pc = "pause" /\ Moves) =>
             /\ processed_count' = 0
             /\ skipped_count' = 0
             /\ page' = 1
             /\ pc' = "cycle_end"
             /\ images' = images /\ idx' = idx
        /\ (pc = "cycle_end" /\ logged = "threshold_reached" /\ Moves) =>
             pc' = "fetch" /\ page' = 1
      ]_vars

\* C2 witness: the pause is over, the counters are reset and an item of the
\* page was left unread.
C2_Witness ==
    /\ pc = "cycle_end"
    /\ logged = "threshold_reached"
    /\ processed_count = 0
    /\ page = 1
    /\ idx < Len(images)

\* C3 as stated: after the item loop of a non-empty page ends without a
\* quota pause, the next fetch is for page + 1.
C3_NextPageAfterCycle ==
    [][ (pc = "cycle_end" /\ logged # "threshold_reached" /\ pc' = "fetch") =>
            page' = page + 1 ]_vars

\* C3 amended: after the item loop of a non-empty page ends without a quota
\* pause, the next fetch is for the same page; the page number grows (by
\* one) only when a fetch returns no item.
C3_SamePageAfterCycle ==
    [][ /\ (pc = "cycle_end" /\ logged # "threshold_reached" /\ pc' = "fetch") =>
             page' = page
        /\ (page' > page) =>
             (pc = "fetch" /\ pc' = "fetch" /\ images' = << >> /\ page' = page + 1)
      ]_vars

\* C3 witness: the loop over a non-empty page 2 has ended and the fetch that
\* follows is again for page 2.
C3_Witness ==
    /\ pc = "fetch"
    /\ Len(images) > 0
    /\ idx > Len(images)
    /\ page = 2

\* C4: a candidate whose (tags, user_comment) pair is in existing_entries_set
\* is not inserted; skipped_count and consecutive_duplicate_count each grow
\* by exactly one, also when the store test matches the candidate too.
C4_ExactDuplicateRejected ==
    [][ (pc = "classify" /\ candidate_pair \in existing_entries_set /\ Moves) =>
            /\ store' = store
            /\ existing_entries_set' = existing_entries_set
            /\ skipped_count' = skipped_count + 1
            /\ consecutive_duplicate_count' = consecutive_duplicate_count + 1
            /\ processed_count' = processed_count
            /\ pc' = "check" ]_vars

\* C4 witness: a candidate was skipped by the in-memory test alone.
C4_Witness ==
    /\ pc = "check"
    /\ logged = "skip_similar"
    /\ candidate_pair \in existing_entries_set
    /\ ~StoreMatch

\* C5 as stated: a candidate matching a stored row on username and comment
\* prefix is never inserted, also when the duplicate query fails.
C5_StoreDuplicateNeverInserted ==
    [][ (pc = "classify" /\ StoreMatch) => store' = store ]_vars

\* C5 amended: a candidate matching a stored row on username and comment
\* prefix is not inserted when the duplicate query succeeded; when the query
\* failed the candidate is inserted only if its pair is not in
\* existing_entries_set.
C5_StoreDuplicateRejectedWhenQueryWorks ==
    [][ /\ (pc = "classify" /\ StoreMatch /\ logged # "duplicate_query_error" /\ Moves) =>
             /\ store' = store
             /\ logged' = "skip_duplicate"
             /\ pc' = "check"
        /\ (pc = "classify" /\ StoreMatch /\ store' # store) =>
             /\ logged = "duplicate_query_error"
             /\ candidate_pair \notin existing_entries_set
      ]_vars

\* C5 witness: a candidate was skipped by the store test alone.
C5_Witness ==
    /\ pc = "check"
    /\ logged = "skip_duplicate"
    /\ StoreMatch
    /\ candidate_pair \notin existing_entries_set

\* C6: after a failed insert the session state is as before it.
C6_FailedInsertLeavesSession ==
    [][ (logged = "insert_error" /\ pc = "accept" /\ Moves) =>
            UNCHANGED << processed_count, consecutive_duplicate_count, processed_ids,
                         recent_users, previous_images, existing_entries_set >> ]_vars

\* C7: when initialize_driver has used up its attempts the run is aborted,
\* at startup and in the middle of an extraction alike.
C7_InitExhaustionAborts ==
    [][ (pc \in { "enter", "reinit" } /\ driver_retries = MAX_DRIVER_RETRIES /\ Moves) =>
            pc' = "error" ]_vars

\* C8: an attempt that loads the page and finds no tag is counted and
\* followed by another attempt (or by giving up once MAX_RETRIES is reached).
C8_ZeroTagsRetried ==
    [][ (pc = "extract" /\ logged' = "item_error_no_tags_on_page") =>
            /\ retries' = retries + 1
            /\ pc' \in { "extract", "reinit" } ]_vars

\* C9: a successful insert sets consecutive_duplicate_count to 0 whatever
\* it was.
C9_StreakReset ==
    [][ (pc = "accept" /\ logged = "inserted" /\ Moves) =>
            consecutive_duplicate_count' = 0 ]_vars

\* C9 witness: an insert has succeeded on a streak one short of the limit.
C9_Witness ==
    /\ pc = "accept"
    /\ logged = "inserted"
    /\ Row(processed_image) \in BagToSet(store)
    /\ consecutive_duplicate_count = DUPLICATE_LIMIT - 1

\* C10: an item whose id is in processed_ids is skipped by the pre-filters:
\* only skipped_count changes and the for loop goes on; no download, no
\* extraction and no insert is started for it.
C10_ProcessedIdSkipped ==
    [][ (pc = "item" /\ image.id \in processed_ids /\ (pc' # pc \/ idx' # idx)
         /\ pc' \notin { "stopped", "crashed" }) =>
            /\ pc' \in { "item", "cycle_end" }
            /\ idx' = idx + 1
            /\ skipped_count' = skipped_count + 1
            /\ UNCHANGED << store, existing_entries_set, processed_ids, previous_images,
                            recent_users, processed_count, consecutive_duplicate_count,
                            driver, page >> ]_vars

\* C10 witness: an id that was processed is offered again, after the
\* recency window of its user, and the skip can be counted.
C10_Witness ==
    /\ pc = "item"
    /\ image.id \in processed_ids
    /\ ~IsRecent(recent_users, image.username)
    /\ skipped_count > 0
    /\ skipped_count < MaxSkipped

\* C11 as stated: an item of a username for which a timestamp younger than
\* TIME_THRESHOLD was recorded at line 307 is skipped by the first
\* pre-filter: only skipped_count changes and the for loop goes on;
\* process_image is not called for it.
C11_RecentUserSkipped ==
    [][ (/\ pc = "item"
         /\ \E k \in DOMAIN recent_users :
               AsText(k) = image.username /\ recent_users[k] < TIME_THRESHOLD
         /\ (pc' # pc \/ idx' # idx)
         /\ pc' \notin { "stopped", "crashed" }) =>
            /\ pc' \in { "item", "cycle_end" }
            /\ idx' = idx + 1
            /\ skipped_count' = skipped_count + 1
            /\ UNCHANGED << store, existing_entries_set, processed_ids, previous_images,
                            recent_users, processed_count, consecutive_duplicate_count,
                            driver, page >> ]_vars

C13_RowsHaveTagsAndComment ==
    /\ \A r \in BagToSet(store) :
          /\ r.tags # << >>
          /\ r.user_comment.kind = "str"
          /\ r.user_comment.s # << >>
    /\ pc \in { "dedup", "classify", "accept" } =>
          /\ processed_image.tags # << >>
          /\ processed_image.user_comment.kind # "none"
          /\ processed_image.user_comment.s # << >>

\* C13 witness: the run has written a row of its own.
C13_Witness ==
    /\ pc = "accept"
    /\ logged = "inserted"
    /\ \E r \in BagToSet(store) : r.id = processed_image.id /\ r.tags # << >>

\* C14 as stated: Ctrl+C at any point of the run, start-up included, ends in
\* the handler of line 348 reporting the counts.
C14_InterruptAlwaysGraceful ==
    [][ (pc \in Running /\ pc' \in { "stopped", "crashed" }) => pc' = "stopped" ]_vars

\* C15 as stated: the id of every item handled past the pre-filters is in
\* processed_ids whatever the outcome, and no id is ever removed.
C15_EverySeenIdRecorded ==
    /\ [](pc = "check" => image.id \in processed_ids)
    /\ [][ processed_ids \subseteq processed_ids' ]_vars

\* C15 amended: processed_ids holds the ids of the items that reached line
\* 309, after insert_into_db was called for them; no other step changes it
\* and no id is ever removed, the quota pause included.
C15_AcceptedIdsRecorded ==
    [][ /\ processed_ids \subseteq processed_ids'
        /\ (pc = "accept" /\ Moves) =>
              processed_ids' = processed_ids \cup { processed_image.id }
        /\ pc # "accept" => processed_ids' = processed_ids ]_vars

\* C15 witness: an item was skipped as similar past the pre-filters and its
\* id is not in processed_ids, which holds the id of an accepted item.
C15_Witness ==
    /\ pc = "check"
    /\ logged = "skip_similar"
    /\ image.id \notin processed_ids
    /\ processed_ids # { }

\* C16: extract_image_details makes at most MAX_RETRIES attempts; a fault
\* adds one to the attempts; when they are used up the item is given up with
\* empty tags, no counter and no stored data change, and the for loop goes
\* on with the next item.
C16_ExtractionBounded ==
    /\ [](retries <= MAX_RETRIES)
    /\ [][ /\ (pc = "extract" /\ (pc' = "reinit" \/ (pc' = pc /\ retries' # retries))) =>
                /\ retries' = retries + 1
                /\ logged' \in { "retry_timeout", "retry_session_fault" }
           /\ (pc = "extract" /\ retries >= MAX_RETRIES /\ Moves) =>
                /\ pc' = "check"
                /\ logged' = "skip_no_tags"
                /\ processed_image' = NoImage
                /\ UNCHANGED << counters, session, driver >>
           /\ (pc = "check" /\ logged = "skip_no_tags" /\ Moves) =>
                /\ pc' \in { "item", "cycle_end" }
                /\ idx' = idx + 1
                /\ UNCHANGED << counters, session, driver >> ]_vars

\* C16 witness: the attempts were used up on a live session and the item was
\* given up.
C16_Witness ==
    /\ pc = "check"
    /\ logged = "skip_no_tags"
    /\ driver = "live"
    /\ processed_image = NoImage

\* C17: when the quota pause ends, processed_count, skipped_count and
\* consecutive_duplicate_count are all 0.
C17_CountersZeroAfterPause ==
    [][ (pc = "pause" /\ Moves) =>
            /\ processed_count' = 0
            /\ skipped_count' = 0
            /\ consecutive_duplicate_count' = 0 ]_vars

\* C17 witness: a quota pause that began with skips counted.
C17_Witness ==
    /\ pc = "pause"
    /\ skipped_count > 0
    /\ processed_count = PROCESS_THRESHOLD

\* C18 as stated: once __enter__ has loaded it, existing_entries_set is the
\* set of (tags, user_comment) pairs of the rows of the table.
C18_EntriesMirrorStore ==
    bound => existing_entries_set = LoadEntries(store)

\* C19 as stated: a timeout in extract_image_details counts one attempt and
\* retries on the same session, which is not quit.
C19_TimeoutKeepsSession ==
    [][ (pc = "extract" /\ logged' = "retry_timeout" /\ retries' # retries) =>
            /\ retries' = retries + 1
            /\ driver' = driver
            /\ pc' = "extract" ]_vars

\* C20: processed_count never exceeds PROCESS_THRESHOLD and
\* consecutive_duplicate_count never exceeds DUPLICATE_LIMIT; both are below
\* their limits when an item iteration starts; at the check of lines 317-327
\* the quota condition and the streak condition are never both true.
C20_CountersBelowLimits ==
    /\ processed_count <= PROCESS_THRESHOLD
    /\ consecutive_duplicate_count <= DUPLICATE_LIMIT
    /\ pc \in { "item", "download", "extract", "reinit", "dedup", "classify" } =>
          /\ processed_count < PROCESS_THRESHOLD
          /\ consecutive_duplicate_count < DUPLICATE_LIMIT
    /\ pc = "check" =>
          ~(/\ processed_count >= PROCESS_THRESHOLD
            /\ consecutive_duplicate_count >= DUPLICATE_LIMIT)

\* C20 witness: the quota is reached at the check with skips counted and no
\* streak.
C20_Witness ==
    /\ pc = "check"
    /\ processed_count = PROCESS_THRESHOLD
    /\ consecutive_duplicate_count = 0
    /\ skipped_count > 0
    /\ logged = "inserted"

====
